---- MODULE Spec2Model ----
(***************************************************************************)
(* bcrypt_pbkdf (bcrypt-pbkdf/src/lib.rs): the bhash primitive, the Bhash  *)
(* keyed-MAC adaptor and the bcrypt_pbkdf driver with its transposition.   *)
(*                                                                         *)
(* The three library collaborators are outside the crate and are modelled  *)
(* by what the crate needs of them:                                        *)
(*   - Sha512 is SHA-512 (FIPS 180-4) as a streaming hash: the chaining    *)
(*     value, the bytes not yet compressed and the length; its digests are *)
(*     those of the sha2 crate;                                            *)
(*   - pbkdf2 is the block loop of the pbkdf2 crate over a cloned MAC;     *)
(*   - Blowfish is a keyed state with the four operations bhash calls.     *)
(*     Its key schedule is 18 + 1024 words rewritten by 521 encryptions at *)
(*     each of the 129 expansions of one bhash; here the schedule is one   *)
(*     number, every operation mixes all of its key material into it, and  *)
(*     bc_encrypt is one Feistel round keyed by it.  The schedules and the *)
(*     ciphertexts are therefore not those of the blowfish crate, and the  *)
(*     bytes bhash and bcrypt_pbkdf return are not those of the code; the  *)
(*     lengths, the order of operations, the byte orders and the data flow *)
(*     are.                                                                *)
(*                                                                         *)
(* A u32 is kept as the pair <<hi, lo>> of its 16-bit halves, so that all  *)
(* 32 bits of a word are represented.                                      *)
(***************************************************************************)
EXTENDS Integers, Sequences, FiniteSets, Bags, TLC

(***************************************************************************)
(* Constants of the source.                                                *)
(***************************************************************************)
BHASH_WORDS == 8
BHASH_OUTPUT_SIZE == BHASH_WORDS * 4
\* b"OxychromaticBlowfishSwatDynamite"
BHASH_SEED ==
    << 79, 120, 121,  99, 104, 114, 111, 109,
       97, 116, 105,  99,  66, 108, 111, 119,
      102, 105, 115, 104,  83, 119,  97, 116,
       68, 121, 110,  97, 109, 105, 116, 101 >>
\* <Sha512 as Digest>::output_size()
SHA512_OUTPUT_SIZE == 64
\* `for _ in 0..64` at 24 and at 34
ENCRYPT_TURNS == 64
\* a slip: one turn short
EXPAND_TURNS_SHORT == ENCRYPT_TURNS - 1
EXPAND_TURNS == 64

\* 2^16: a u32 is two halves below it
Half == 256 * 256
\* the modulus of the two stand-in primitives (the largest prime below 2^16)
Prime == Half - 15

(***************************************************************************)
(* Bytes and words.                                                        *)
(***************************************************************************)
RECURSIVE Xor8(_, _)
\* a ^ b on bytes (and on any two naturals), bit by bit
Xor8(a, b) ==
    IF a = 0 THEN b
    ELSE IF b = 0 THEN a
    ELSE ((a + b) % 2) + 2 * Xor8(a \div 2, b \div 2)

\* xor(chunk, salt) of the pbkdf2 crate: chunk[i] ^= salt[i]
XorBytes(chunk, bytes) == [k \in 1..Len(chunk) |-> Xor8(chunk[k], bytes[k])]

\* a slip: the seed is read little-endian
LE_read_u32(b) == << b[4] * 256 + b[3], b[2] * 256 + b[1] >>

\* BE::read_u32 of the 4 bytes b: b[1] is the most significant
BE_read_u32(b) == << b[1] * 256 + b[2], b[3] * 256 + b[4] >>

\* LE::write_u32 of the word w: the least significant byte first
LE_write_u32(w) == << w[2] % 256, w[2] \div 256, w[1] % 256, w[1] \div 256 >>

\* BigEndian::write_u32(&mut buf, n) for the block counters of pbkdf2
BE_write_u32(n) ==
    << (n \div 16777216) % 256, (n \div 65536) % 256, (n \div 256) % 256, n % 256 >>

\* the slice s[from..to] of Rust (0-based, `to` excluded) of a 1-based sequence
Slice(s, from, to) == SubSeq(s, from + 1, to)

(***************************************************************************)
(* Sha512 (the sha2 crate): SHA-512 of FIPS 180-4 on 16-bit limbs.         *)
(*                                                                         *)
(* Every loop over more than a few items is written as a function that     *)
(* takes the running value and splits the items in halves: the items are   *)
(* still taken first to last, and the evaluation stays shallow.            *)
(***************************************************************************)
SHA512_BLOCK_SIZE == 128

RECURSIVE AndBits(_, _, _)
\* a & b on n bits
AndBits(a, b, n) ==
    IF n = 0 THEN 0 ELSE (a % 2) * (b % 2) + 2 * AndBits(a \div 2, b \div 2, n - 1)

\* a & b and a ^ b for every pair of bytes, at index 256 a + b + 1
\* (SubSeq makes each table a sequence whose items are computed once)
AndTable == SubSeq([i \in 1..Half |-> AndBits((i - 1) \div 256, (i - 1) % 256, 8)], 1, Half)
XorTable ==
    SubSeq([i \in 1..Half |-> ((i - 1) \div 256) + ((i - 1) % 256) - 2 * AndTable[i]], 1, Half)

\* x & y and x ^ y ^ z on 16 bits
And16(x, y) ==
    LET f[a \in Nat, b \in Nat] ==
            AndTable[(a \div 256) * 256 + (b \div 256) + 1] * 256
                + AndTable[(a % 256) * 256 + (b % 256) + 1]
    IN  f[x, y]
Xor3(x, y, z) ==
    LET f[a \in Nat, b \in Nat, c \in Nat] ==
            XorTable[XorTable[(a \div 256) * 256 + (b \div 256) + 1] * 256 + (c \div 256) + 1] * 256
                + XorTable[XorTable[(a % 256) * 256 + (b % 256) + 1] * 256 + (c % 256) + 1]
    IN  f[x, y, z]

\* 2^r at r + 1
Pow2 == << 1, 2, 4, 8, 16, 32, 64, 128, 256, 512, 1024, 2048, 4096, 8192, 16384, 32768, 65536 >>

\* a u64 is four 16-bit limbs, the most significant first
Word64 == Nat \X Nat \X Nat \X Nat

\* limb i (0 the least significant) of x rotated right by 16 q + r bits
RotLimb(x, i, q, r) ==
    (x[4 - ((i + q) % 4)] \div Pow2[r + 1])
        + (x[4 - ((i + q + 1) % 4)] % Pow2[r + 1]) * Pow2[17 - r]
\* limb i of x shifted right by r < 16 bits
ShrLimb(x, i, r) ==
    (x[4 - i] \div Pow2[r + 1]) + (IF i = 3 THEN 0 ELSE (x[3 - i] % Pow2[r + 1]) * Pow2[17 - r])

\* limb i of the six functions of FIPS 180-4, 4.1.3
BigSigma0(x, i) == Xor3(RotLimb(x, i, 1, 12), RotLimb(x, i, 2, 2), RotLimb(x, i, 2, 7))
BigSigma1(x, i) == Xor3(RotLimb(x, i, 0, 14), RotLimb(x, i, 1, 2), RotLimb(x, i, 2, 9))
SmallSigma0(x, i) == Xor3(RotLimb(x, i, 0, 1), RotLimb(x, i, 0, 8), ShrLimb(x, i, 7))
SmallSigma1(x, i) == Xor3(RotLimb(x, i, 1, 3), RotLimb(x, i, 3, 13), ShrLimb(x, i, 6))
Ch(x, y, z, i) == And16(x[4 - i], y[4 - i]) + And16(65535 - x[4 - i], z[4 - i])
Maj(x, y, z, i) ==
    LET f[a \in Nat, b \in Nat, c \in Nat, ab \in Nat] == ab + And16(c, a + b - 2 * ab)
    IN  f[x[4 - i], y[4 - i], z[4 - i], And16(x[4 - i], y[4 - i])]

\* the word of four limb sums, most significant first, carries propagated, modulo 2^64
Carry(s1, s2, s3, s4) ==
    LET f[a \in Nat, b \in Nat, c \in Nat, d \in Nat] ==
            << (a + ((b + ((c + (d \div Half)) \div Half)) \div Half)) % Half,
               (b + ((c + (d \div Half)) \div Half)) % Half,
               (c + (d \div Half)) % Half,
               d % Half >>
    IN  f[s1, s2, s3, s4]
\* x + y modulo 2^64
Add64(x, y) == Carry(x[1] + y[1], x[2] + y[2], x[3] + y[3], x[4] + y[4])

\* the initial hash value and the 80 round constants (FIPS 180-4, 5.3.5 and 4.2.3)
SHA512_H0 ==
    << << 27145, 58983, 62396, 51464 >>,
       << 47975, 44677, 33994, 42811 >>,
       << 15470, 62322, 65172, 63531 >>,
       << 42319, 62778, 24349, 14065 >>,
       << 20750, 21119, 44518, 33489 >>,
       << 39685, 26764, 11070, 27679 >>,
       << 8067, 55723, 64321, 48491 >>,
       << 23520, 52505, 4990, 8569 >> >>

SHA512_K ==
    << << 17034, 12184, 55080, 44578 >>,
       << 28983, 17553, 9199, 26061 >>,
       << 46528, 64463, 60493, 15151 >>,
       << 59829, 56229, 33161, 56252 >>,
       << 14678, 49755, 62280, 46392 >>,
       << 23025, 4593, 46597, 53273 >>,
       << 37439, 33444, 44825, 20379 >>,
       << 43804, 24277, 55917, 33048 >>,
       << 55303, 43672, 41731, 578 >>,
       << 4739, 23297, 17776, 28606 >>,
       << 9265, 34238, 20196, 45708 >>,
       << 21772, 32195, 54783, 46306 >>,
       << 29374, 23924, 62075, 35183 >>,
       << 32990, 45566, 15126, 38577 >>,
       << 39900, 1703, 9671, 4661 >>,
       << 49563, 61812, 53097, 9876 >>,
       << 58523, 27073, 40689, 19154 >>,
       << 61374, 18310, 14415, 9699 >>,
       << 4033, 40390, 35724, 54709 >>,
       << 9228, 41420, 30636, 40037 >>,
       << 11753, 11375, 22827, 629 >>,
       << 19060, 33962, 28326, 58499 >>,
       << 23728, 43484, 48449, 64468 >>,
       << 30457, 35034, 33553, 21429 >>,
       << 38974, 20818, 61030, 57259 >>,
       << 43057, 50797, 11700, 12816 >>,
       << 45059, 10184, 39163, 8511 >>,
       << 48985, 32711, 48879, 3812 >>,
       << 50912, 3059, 15784, 36802 >>,
       << 54695, 37191, 37642, 42789 >>,
       << 1738, 25425, 57347, 33391 >>,
       << 5161, 10599, 2574, 28272 >>,
       << 10167, 2693, 18130, 12284 >>,
       << 11803, 8504, 23590, 51494 >>,
       << 19756, 28156, 23236, 10989 >>,
       << 21304, 3347, 40341, 46047 >>,
       << 25866, 29524, 35759, 25566 >>,
       << 30314, 2747, 15479, 45736 >>,
       << 33218, 51502, 18413, 44774 >>,
       << 37490, 11397, 5250, 13627 >>,
       << 41663, 59553, 19697, 868 >>,
       << 43034, 26187, 48194, 12289 >>,
       << 49739, 35696, 53496, 38801 >>,
       << 51052, 20899, 1620, 48688 >>,
       << 53650, 59417, 55023, 21016 >>,
       << 54937, 1572, 21861, 43280 >>,
       << 62478, 13701, 22385, 8234 >>,
       << 4202, 41072, 12987, 53688 >>,
       << 6564, 49430, 47314, 53448 >>,
       << 7735, 27656, 20801, 43859 >>,
       << 10056, 30540, 57230, 60313 >>,
       << 13488, 48309, 57755, 18600 >>,
       << 14620, 3251, 50633, 23139 >>,
       << 20184, 43594, 58177, 35531 >>,
       << 23452, 51791, 30563, 58227 >>,
       << 26670, 28659, 54962, 47267 >>,
       << 29839, 33518, 24047, 45820 >>,
       << 30885, 25455, 17175, 12128 >>,
       << 33992, 30740, 41456, 43890 >>,
       << 36039, 520, 6756, 14828 >>,
       << 37054, 65530, 9059, 7720 >>,
       << 42064, 27883, 56962, 48617 >>,
       << 48889, 41975, 45766, 30997 >>,
       << 50801, 30962, 58226, 21291 >>,
       << 51751, 16078, 59942, 24988 >>,
       << 53638, 47303, 8640, 49671 >>,
       << 60122, 32214, 52704, 60190 >>,
       << 62845, 20351, 61038, 53624 >>,
       << 1776, 26538, 29207, 28602 >>,
       << 2659, 32197, 41672, 39078 >>,
       << 4415, 38916, 48889, 3502 >>,
       << 7025, 2869, 4892, 18203 >>,
       << 10459, 30709, 8964, 32132 >>,
       << 13002, 43899, 16583, 9363 >>,
       << 15518, 48650, 5577, 48828 >>,
       << 17181, 26564, 39952, 3404 >>,
       << 19653, 54462, 52030, 17078 >>,
       << 22911, 10652, 64613, 32298 >>,
       << 24523, 28587, 15062, 64236 >>,
       << 27716, 6540, 19015, 22551 >> >>

\* the 16 words of a block, big-endian
BlockWords(block) ==
    [t \in 1..16 |->
        << block[8 * t - 7] * 256 + block[8 * t - 6], block[8 * t - 5] * 256 + block[8 * t - 4],
           block[8 * t - 3] * 256 + block[8 * t - 2], block[8 * t - 1] * 256 + block[8 * t] >>]

\* limb i of the sum that makes W[t]
ScheduleLimb(w, t, i) ==
    SmallSigma1(w[t - 2], i) + w[t - 7][4 - i] + SmallSigma0(w[t - 15], i) + w[t - 16][4 - i]

\* the message schedule W[1..80] of a block
Schedule(block) ==
    LET f[w \in Seq(Word64), lo \in Nat, hi \in Nat] ==
            IF lo > hi THEN w
            ELSE IF lo = hi
            THEN Append(w, Carry(ScheduleLimb(w, lo, 3), ScheduleLimb(w, lo, 2),
                                 ScheduleLimb(w, lo, 1), ScheduleLimb(w, lo, 0)))
            ELSE f[f[w, lo, (lo + hi) \div 2], ((lo + hi) \div 2) + 1, hi]
    IN  f[BlockWords(block), 17, 80]

\* limb i of the sums T1 and T2 of a round on the working variables s = a..h
T1Limb(s, k, w, i) ==
    s[8][4 - i] + BigSigma1(s[5], i) + Ch(s[5], s[6], s[7], i) + k[4 - i] + w[4 - i]
T2Limb(s, i) == BigSigma0(s[1], i) + Maj(s[1], s[2], s[3], i)

\* one of the 80 rounds
Round(s, k, w) ==
    LET f[t1 \in Word64, t2 \in Word64] ==
            << Add64(t1, t2), s[1], s[2], s[3], Add64(s[4], t1), s[5], s[6], s[7] >>
    IN  f[Carry(T1Limb(s, k, w, 3), T1Limb(s, k, w, 2), T1Limb(s, k, w, 1), T1Limb(s, k, w, 0)),
          Carry(T2Limb(s, 3), T2Limb(s, 2), T2Limb(s, 1), T2Limb(s, 0))]

\* the chaining value after a block
Compress(h, block) ==
    LET g[w \in Seq(Word64)] ==
            LET f[s \in Seq(Word64), lo \in Nat, hi \in Nat] ==
                    IF lo > hi THEN s
                    ELSE IF lo = hi THEN Round(s, SHA512_K[lo], w[lo])
                    ELSE f[f[s, lo, (lo + hi) \div 2], ((lo + hi) \div 2) + 1, hi]
                e[r \in Seq(Word64)] == [i \in 1..8 |-> Add64(h[i], r[i])]
            IN  e[f[h, 1, 80]]
    IN  g[Schedule(block)]

\* Sha512::default()
Sha512Default == [h |-> SHA512_H0, buf |-> << >>, n |-> 0]

RECURSIVE Blocks(_, _)
\* every whole block of buf compressed, the rest kept
Blocks(h, buf) ==
    IF Len(buf) < SHA512_BLOCK_SIZE THEN [h |-> h, buf |-> buf]
    ELSE Blocks(Compress(h, SubSeq(buf, 1, SHA512_BLOCK_SIZE)),
                SubSeq(buf, SHA512_BLOCK_SIZE + 1, Len(buf)))

\* Sha512::input(data)
Sha512Input(s, data) ==
    LET b == Blocks(s.h, s.buf \o data)
    IN  [h |-> b.h, buf |-> b.buf, n |-> s.n + Len(data)]

\* 0x80, zeros up to 16 bytes before the end of a block, the length in bits on 128 bits
Padding(n) ==
    LET zeros == (2 * SHA512_BLOCK_SIZE - 17 - (n % SHA512_BLOCK_SIZE)) % SHA512_BLOCK_SIZE
        bits == << (n \div 2097152) % 256, (n \div 8192) % 256, (n \div 32) % 256, (n * 8) % 256 >>
    IN  << 128 >> \o [k \in 1..(zeros + 12) |-> 0] \o bits

\* Sha512::reset()
Sha512Reset(s) == Sha512Default

\* Sha512::result(): the padded rest compressed, the chaining value big-endian
Sha512Result(s) ==
    LET f[h \in Seq(Word64)] ==
            [j \in 1..SHA512_OUTPUT_SIZE |->
                IF j % 2 = 1 THEN h[((j - 1) \div 8) + 1][(((j - 1) % 8) \div 2) + 1] \div 256
                ELSE h[((j - 1) \div 8) + 1][(((j - 1) % 8) \div 2) + 1] % 256]
    IN  f[Blocks(s.h, s.buf \o Padding(s.n)).h]

\* Sha512::digest(data)
Sha512Digest(data) == Sha512Result(Sha512Input(Sha512Default, data))

(***************************************************************************)
(* Blowfish, as far as bhash uses it.  The blowfish crate is a collaborator*)
(* outside this crate, modelled by its interface: the key schedule is one  *)
(* number below Prime, each operation is a deterministic function of the   *)
(* schedule and of every byte of its key material, and bc_encrypt returns  *)
(* two words that depend on the schedule and on both words it is given.    *)
(* The arithmetic is not Blowfish's: the schedules and the ciphertexts of  *)
(* the model are not those of the code.                                    *)
(***************************************************************************)
\* the bytes a key expansion reads: 18 words of 4 bytes
BLOWFISH_KEY_READ == 18 * 4

\* the key material as the key schedule reads it: BLOWFISH_KEY_READ bytes in
\* order, from the start again when the key ends
\* (the sum of the bytes read, each weighted by its place, taken as the
\* cardinality of the bag that holds place j that many times)
KeyMaterial(h0, key) ==
    (h0 + BagCardinality([j \in 1..BLOWFISH_KEY_READ |->
                             j * (key[((j - 1) % Len(key)) + 1] + 1)])) % Prime

bc_init_state == 9279

\* the salted key schedule reads all of the salt and all of the key
salted_expand_key(st, salt, key) ==
    (st * 17 + 3 * KeyMaterial(1, key) + KeyMaterial(2, salt) + 1) % Prime

\* a plain re-expansion reads all of the key
bc_expand_key(st, key) == (st * 5 + KeyMaterial(3, key) + 7) % Prime

\* one Feistel round keyed by the state: a permutation of the 64-bit block
bc_encrypt(st, l, r) ==
    LET f == << (r[2] + st) % Half, (3 * r[1] + st + 1) % Half >>
    IN  << r, << (l[1] + f[1]) % Half, (l[2] + f[2]) % Half >> >>

(***************************************************************************)
(* bhash as a function (lib.rs 17-48), built from the same steps the       *)
(* step-by-step machine below takes.                                       *)
(***************************************************************************)
\* the two assert_eq! at the head of bhash
BhashAsserts(sha2_pass, sha2_salt) ==
    /\ Len(sha2_pass) = SHA512_OUTPUT_SIZE
    /\ Len(sha2_salt) = SHA512_OUTPUT_SIZE

\* 25 and 26
ExpandSalt(st, sha2_salt) == bc_expand_key(st, sha2_salt)
ExpandPass(st, sha2_pass) == bc_expand_key(st, sha2_pass)

\* one turn of the loop at 24-27
ExpandTurn(st, sha2_salt, sha2_pass) == ExpandPass(ExpandSalt(st, sha2_salt), sha2_pass)

\* n turns of the loop at 24-27
ExpandLoop(st, sha2_salt, sha2_pass, n) ==
    LET f[s \in Nat, m \in Nat] ==
            IF m = 0 THEN s
            ELSE IF m = 1 THEN ExpandTurn(s, sha2_salt, sha2_pass)
            ELSE f[f[s, m \div 2], m - (m \div 2)]
    IN  f[st, n]

\* the loop at 29-32: cdata[i] = BE::read_u32(&BHASH_SEED[i * 4..(i + 1) * 4])
SeedWords ==
    [i \in 0..(BHASH_WORDS - 1) |-> BE_read_u32(Slice(BHASH_SEED, i * 4, (i + 1) * 4))]

\* the body of the loop at 35-39 for one i
EncryptPair(st, cd, i) ==
    LET lr == bc_encrypt(st, cd[i], cd[i + 1])
    IN  [cd EXCEPT ![i] = lr[1], ![i + 1] = lr[2]]

\* the index after i in (0..BHASH_WORDS).step_by(2)
NextPair(i) == i + 2

Words == [0..(BHASH_WORDS - 1) -> Nat \X Nat]

\* one turn of the loop at 34-40: the pairs from word i on
RECURSIVE EncryptPass(_, _, _)
EncryptPass(st, cd, i) ==
    IF i >= BHASH_WORDS THEN cd
    ELSE EncryptPass(st, EncryptPair(st, cd, i), NextPair(i))

\* n turns of the loop at 34-40
EncryptLoop(st, cd0, n) ==
    LET f[cd \in Words, m \in Nat] ==
            IF m = 0 THEN cd
            ELSE IF m = 1 THEN EncryptPass(st, cd, 0)
            ELSE f[f[cd, m \div 2], m - (m \div 2)]
    IN  f[cd0, n]

\* the loop at 42-45: LE::write_u32(&mut output[i * 4..(i + 1) * 4], cdata[i])
Serialize(cd) ==
    [k \in 1..BHASH_OUTPUT_SIZE |-> LE_write_u32(cd[(k - 1) \div 4])[((k - 1) % 4) + 1]]

\* [ok |-> FALSE] is the panic of a failed assertion
bhash(sha2_pass, sha2_salt) ==
    LET f[pass \in Seq(Nat), salt \in Seq(Nat)] ==
            IF ~BhashAsserts(pass, salt) THEN [ok |-> FALSE, out |-> << >>]
            ELSE LET st0 == salted_expand_key(bc_init_state, salt, pass)
                     st1 == ExpandLoop(st0, salt, pass, EXPAND_TURNS)
                 IN  [ok |-> TRUE, out |-> Serialize(EncryptLoop(st1, SeedWords, ENCRYPT_TURNS))]
    IN  f[sha2_pass, sha2_salt]

(***************************************************************************)
(* The keyed-MAC adaptor Bhash (lib.rs 50-79): the key and a running        *)
(* Sha512 of the input.                                                    *)
(***************************************************************************)
\* Mac::new
BhashNew(key) == [sha2_pass |-> key, salt |-> Sha512Default]

\* Mac::input
BhashInput(m, data) == [m EXCEPT !.salt = Sha512Input(m.salt, data)]

\* a slip: reset leaves the accumulated input
BhashResetNoop(m) == m

\* Mac::reset
BhashReset(m) == [m EXCEPT !.salt = Sha512Reset(m.salt)]

\* 76: the two arguments result passes to bhash
BhashArgs(m) == [pass |-> m.sha2_pass, salt |-> Sha512Result(m.salt)]

\* Mac::result; [ok |-> FALSE] when bhash panics
BhashResult(m) ==
    LET f[a \in [pass : Seq(Nat), salt : Seq(Nat)]] == bhash(a.pass, a.salt)
    IN  f[BhashArgs(m)]

\* Mac::new_varkey of crypto-mac: the key must have the MAC's key size
KeySizeOk(key) == Len(key) = SHA512_OUTPUT_SIZE

(***************************************************************************)
(* bcrypt_pbkdf (lib.rs 81-100), as functions of its arguments.            *)
(***************************************************************************)
\* a slip: the division rounds down
StrideFloor(len) == len \div BHASH_OUTPUT_SIZE

\* 83: (output.len() + BHASH_OUTPUT_SIZE - 1) / BHASH_OUTPUT_SIZE
Stride(len) == (len + BHASH_OUTPUT_SIZE - 1) \div BHASH_OUTPUT_SIZE

\* 84: vec![0; stride * BHASH_OUTPUT_SIZE]
Generated(stride) == [k \in 1..(stride * BHASH_OUTPUT_SIZE) |-> 0]

\* a slip: the passphrase itself as the key
PassRaw(passphrase) == passphrase
\* 88: Sha512::digest(passphrase.as_bytes())
PassDigest(passphrase) == Sha512Digest(passphrase)

\* 96-98: the index of `generated` read for output index i
ChunkNum(i, stride) == i % stride
ChunkIndex(i, stride) == i \div stride
\* a slip: the blocks are concatenated, not interleaved
ReadIndexConcat(i, stride) == i
\* a slip: the two roles are swapped
ReadIndexSwapped(i, stride) ==
    ChunkIndex(i, stride) * BHASH_OUTPUT_SIZE + ChunkNum(i, stride)

ReadIndex(i, stride) == ChunkNum(i, stride) * BHASH_OUTPUT_SIZE + ChunkIndex(i, stride)

\* a slip: the loop runs over the whole blocks only
TransposeEndBlocks(len) == (len \div BHASH_OUTPUT_SIZE) * BHASH_OUTPUT_SIZE

\* 95: the loop runs over every index of `output`
TransposeEnd(len) == len

\* the MAC input of the first round of block i (0-based): salt, then BE32(i + 1)
FirstInput(salt, i) == salt \o BE_write_u32(i + 1)

\* prf.clone(), input(salt), input(BE32(i + 1)): the MAC of the first round
FirstMac(mac, salt, i) == BhashInput(BhashInput(mac, salt), BE_write_u32(i + 1))

\* prf.clone(), input(previous): the MAC of every later round
IterMac(mac, previous) == BhashInput(mac, previous)

\* chunk i (0-based) of `generated` replaced by `chunk`
PutChunk(gen, i, chunk) ==
    [k \in 1..Len(gen) |->
        IF k > i * BHASH_OUTPUT_SIZE /\ k <= (i + 1) * BHASH_OUTPUT_SIZE
        THEN chunk[k - i * BHASH_OUTPUT_SIZE] ELSE gen[k]]

GetChunk(gen, i) == Slice(gen, i * BHASH_OUTPUT_SIZE, (i + 1) * BHASH_OUTPUT_SIZE)

\* the number of MAC results one block takes: one, and one per turn of 1..c
RoundsOf(c) == IF c < 1 THEN 1 ELSE c

(***************************************************************************)
(* State.                                                                  *)
(***************************************************************************)
VARIABLES
    \* one bhash invocation, step by step
    bh_pc,        \* where the invocation stands
    sha2_pass,    \* its first argument
    sha2_salt,    \* its second argument
    blowfish,     \* the cipher state
    cdata,        \* the 8 words
    bh_output,    \* the 32 bytes returned
    bh_n,         \* the turn of the loop under way (0-based)
    bh_i,         \* the word index of the inner loop at 35
    oplog,        \* history: the cipher operations performed, in order
    \* bcrypt_pbkdf, one record per caller
    pc,           \* where the caller's call stands
    passphrase,   \* the arguments
    salt,
    rounds,
    output,       \* the caller's buffer
    stride,       \* the locals of bcrypt_pbkdf
    generated,
    mac,          \* pbkdf2's keyed instance
    blk,          \* pbkdf2's block index i
    rnd,          \* the MAC results taken for block blk so far
    prev,         \* pbkdf2_body's `salt`: the previous MAC result
    ti,           \* the index i of the loop at 95
    out0,         \* history: the buffer as the caller passed it
    writes,       \* history: how often each byte of the buffer was written
    calls,        \* history: the bhash invocations of the call, in order
    ncalls,       \* history: the calls the caller has made, counted up to 2
    overlapped,   \* history: another caller's call ran during this one
    \* one Bhash adaptor in the hands of a user
    m_pc,         \* "none", "live" or "consumed" (result takes self)
    m_key,        \* the key it was constructed with
    adaptor,      \* the adaptor
    m_tag,        \* what result returned
    m_fed,        \* history: the input since construction or the last reset
    m_inputs,     \* history: the input calls since then
    m_resets      \* history: whether reset was called after some input

bhVars == << bh_pc, sha2_pass, sha2_salt, blowfish, cdata, bh_output, bh_n, bh_i, oplog >>

argVars == << passphrase, salt, rounds >>
drvVars == << pc, passphrase, salt, rounds, output, stride, generated, mac, blk, rnd,
              prev, ti, out0, writes, calls, ncalls, overlapped >>
macVars == << m_pc, m_key, adaptor, m_tag, m_fed, m_inputs, m_resets >>

vars == << bhVars, drvVars, macVars >>

(***************************************************************************)
(* One bhash invocation, one cipher operation per step.                    *)
(***************************************************************************)
\* the test vectors' shapes: all zero, ascending, and two digests
Zeros64 == [k \in 1..SHA512_OUTPUT_SIZE |-> 0]
Ascending64 == [k \in 1..SHA512_OUTPUT_SIZE |-> k - 1]
BhInputs == { Zeros64, Ascending64, Sha512Digest(<< 112, 97, 115, 115 >>) }

ZeroWords == [i \in 0..(BHASH_WORDS - 1) |-> << 0, 0 >>]

BhIdle ==
    /\ bh_pc = "idle"
    /\ sha2_pass = << >>
    /\ sha2_salt = << >>
    /\ blowfish = 0
    /\ cdata = ZeroWords
    /\ bh_output = << >>
    /\ bh_n = 0
    /\ bh_i = 0
    /\ oplog = << >>

BhStart ==
    /\ bh_pc = "entry"
    /\ sha2_pass \in BhInputs
    /\ sha2_salt \in BhInputs
    /\ blowfish = 0
    /\ cdata = ZeroWords
    /\ bh_output = << >>
    /\ bh_n = 0
    /\ bh_i = 0
    /\ oplog = << >>

\* 18-21
BhInitState ==
    /\ bh_pc = "entry"
    /\ IF BhashAsserts(sha2_pass, sha2_salt)
       THEN /\ blowfish' = bc_init_state
            /\ oplog' = Append(oplog, [op |-> "init"])
            /\ bh_pc' = "salted"
       ELSE /\ bh_pc' = "panicked"
            /\ UNCHANGED << blowfish, oplog >>
    /\ UNCHANGED << sha2_pass, sha2_salt, cdata, bh_output, bh_n, bh_i >>
    /\ UNCHANGED << drvVars, macVars >>

\* 23
BhSaltedExpand ==
    /\ bh_pc = "salted"
    /\ blowfish' = salted_expand_key(blowfish, sha2_salt, sha2_pass)
    /\ oplog' = Append(oplog, [op |-> "salted", salt |-> sha2_salt, key |-> sha2_pass])
    /\ bh_n' = 0
    /\ bh_pc' = "expand_salt"
    /\ UNCHANGED << sha2_pass, sha2_salt, cdata, bh_output, bh_i >>
    /\ UNCHANGED << drvVars, macVars >>

\* 24-25; the loop at 24 is left for 29-32 when its 64 turns are done
BhExpandSalt ==
    /\ bh_pc = "expand_salt"
    /\ IF bh_n < EXPAND_TURNS
       THEN /\ blowfish' = ExpandSalt(blowfish, sha2_salt)
            /\ oplog' = Append(oplog, [op |-> "expand", key |-> sha2_salt])
            /\ bh_pc' = "expand_pass"
            /\ UNCHANGED cdata
       ELSE /\ cdata' = SeedWords
            /\ bh_pc' = "encrypt"
            /\ UNCHANGED << blowfish, oplog >>
    /\ bh_n' = IF bh_n < EXPAND_TURNS THEN bh_n ELSE 0
    /\ bh_i' = 0
    /\ UNCHANGED << sha2_pass, sha2_salt, bh_output >>
    /\ UNCHANGED << drvVars, macVars >>

\* 26
BhExpandPass ==
    /\ bh_pc = "expand_pass"
    /\ blowfish' = ExpandPass(blowfish, sha2_pass)
    /\ oplog' = Append(oplog, [op |-> "expand", key |-> sha2_pass])
    /\ bh_n' = bh_n + 1
    /\ bh_pc' = "expand_salt"
    /\ UNCHANGED << sha2_pass, sha2_salt, cdata, bh_output, bh_i >>
    /\ UNCHANGED << drvVars, macVars >>

\* 34-39: one bc_encrypt; the loops are left for 42-47 after 64 passes
BhEncrypt ==
    /\ bh_pc = "encrypt"
    /\ IF bh_n < ENCRYPT_TURNS
       THEN /\ cdata' = EncryptPair(blowfish, cdata, bh_i)
            /\ oplog' = Append(oplog, [op |-> "encrypt", i |-> bh_i,
                                       l |-> cdata[bh_i], r |-> cdata[bh_i + 1],
                                       cl |-> cdata'[bh_i], cr |-> cdata'[bh_i + 1]])
            /\ bh_i' = IF NextPair(bh_i) >= BHASH_WORDS THEN 0 ELSE NextPair(bh_i)
            /\ bh_n' = IF NextPair(bh_i) >= BHASH_WORDS THEN bh_n + 1 ELSE bh_n
            /\ UNCHANGED << bh_pc, bh_output >>
       ELSE /\ bh_output' = Serialize(cdata)
            /\ bh_pc' = "done"
            /\ UNCHANGED << cdata, oplog, bh_i, bh_n >>
    /\ UNCHANGED << sha2_pass, sha2_salt, blowfish >>
    /\ UNCHANGED << drvVars, macVars >>

BhNext ==
    \/ BhInitState
    \/ BhSaltedExpand
    \/ BhExpandSalt
    \/ BhExpandPass
    \/ BhEncrypt

(***************************************************************************)
(* bcrypt_pbkdf, one MAC result or one output byte per step.               *)
(***************************************************************************)
Callers == {1, 2}

MaxLen == 66
MaxRounds == 2

Lens == 0..MaxLen
RoundsSet == 0..MaxRounds
\* "", "p\0"
Passphrases == { << >>, << 112, 0 >> }
\* "", "sa"
Salts == { << >>, << 115, 97 >> }
\* what the caller's buffer may hold when it is passed
CallerFill == { 170 }

\* the lengths next to a multiple of the block size, and the longest
EdgeLens ==
    { l \in Lens : l = MaxLen \/ l % BHASH_OUTPUT_SIZE \in {0, 1, BHASH_OUTPUT_SIZE - 1} }

\* every passphrase, salt and rounds with the lengths of EdgeLens, and every
\* length with the empty passphrase, the empty salt and one round
ArgSet ==
    { a \in [passphrase : Passphrases, salt : Salts, rounds : RoundsSet, len : Lens] :
        \/ a.len \in EdgeLens
        \/ a.passphrase = << >> /\ a.salt = << >> /\ a.rounds = 1 }

DrvIdle ==
    /\ pc = [c \in Callers |-> "idle"]
    /\ passphrase = [c \in Callers |-> << >>]
    /\ salt = [c \in Callers |-> << >>]
    /\ rounds = [c \in Callers |-> 0]
    /\ output = [c \in Callers |-> << >>]
    /\ stride = [c \in Callers |-> 0]
    /\ generated = [c \in Callers |-> << >>]
    /\ mac = [c \in Callers |-> BhashNew(<< >>)]
    /\ blk = [c \in Callers |-> 0]
    /\ rnd = [c \in Callers |-> 0]
    /\ prev = [c \in Callers |-> << >>]
    /\ ti = [c \in Callers |-> 0]
    /\ out0 = [c \in Callers |-> << >>]
    /\ writes = [c \in Callers |-> << >>]
    /\ calls = [c \in Callers |-> << >>]
    /\ ncalls = [c \in Callers |-> 0]
    /\ overlapped = [c \in Callers |-> FALSE]

\* caller c is inside bcrypt_pbkdf
InCall(c) == pc[c] \in {"alloc", "pbkdf2", "block", "transpose"}

\* the caller passes its arguments and a buffer of its own
Call(c, args) ==
    /\ pc[c] = "idle"
    /\ \E a \in args, fill \in CallerFill :
        /\ passphrase' = [passphrase EXCEPT ![c] = a.passphrase]
        /\ salt' = [salt EXCEPT ![c] = a.salt]
        /\ rounds' = [rounds EXCEPT ![c] = a.rounds]
        /\ output' = [output EXCEPT ![c] = [k \in 1..a.len |-> fill]]
        /\ out0' = [out0 EXCEPT ![c] = [k \in 1..a.len |-> fill]]
        /\ writes' = [writes EXCEPT ![c] = [k \in 1..a.len |-> 0]]
    /\ pc' = [pc EXCEPT ![c] = "alloc"]
    /\ ncalls' = [ncalls EXCEPT ![c] = IF @ < 2 THEN @ + 1 ELSE 2]
    /\ overlapped' = [d \in Callers |->
                         IF d = c THEN \E e \in Callers \ {c} : InCall(e)
                         ELSE overlapped[d] \/ InCall(d)]
    /\ UNCHANGED << stride, generated, mac, blk, rnd, prev, ti, calls, bhVars, macVars >>

\* 83-84
Alloc(c) ==
    /\ pc[c] = "alloc"
    /\ stride' = [stride EXCEPT ![c] = Stride(Len(output[c]))]
    /\ generated' = [generated EXCEPT ![c] = Generated(Stride(Len(output[c])))]
    /\ pc' = [pc EXCEPT ![c] = "pbkdf2"]
    /\ UNCHANGED << argVars, output, mac, blk, rnd, prev, ti, out0, writes, calls >>
    /\ UNCHANGED << ncalls, overlapped, bhVars, macVars >>

\* where pbkdf2 goes after block b is done, or at its start with b = 0
AfterBlock(c, b) == IF b < stride[c] THEN "block" ELSE "transpose"

\* a slip: one keyed instance for the whole process, reused while a call of
\* another caller is using it
Pbkdf2StartShared(c) ==
    /\ pc[c] = "pbkdf2"
    /\ \E key \in { PassDigest(passphrase[c]) } :
          \/ /\ KeySizeOk(key)
             /\ mac' = [mac EXCEPT ![c] =
                           IF \E d \in Callers \ {c} : pc[d] = "block"
                           THEN mac[CHOOSE d \in Callers \ {c} : pc[d] = "block"]
                           ELSE BhashNew(key)]
             /\ pc' = [pc EXCEPT ![c] = AfterBlock(c, 0)]
          \/ /\ ~KeySizeOk(key) \/ rounds[c] = 0
             /\ pc' = [pc EXCEPT ![c] = "aborted"]
             /\ UNCHANGED mac
    /\ blk' = [blk EXCEPT ![c] = 0]
    /\ rnd' = [rnd EXCEPT ![c] = 0]
    /\ ti' = [ti EXCEPT ![c] = 0]
    /\ prev' = [prev EXCEPT ![c] = << >>]
    /\ UNCHANGED << argVars, output, stride, generated, out0, writes, calls >>
    /\ UNCHANGED << ncalls, overlapped, bhVars, macVars >>

\* 87-92, the head of pbkdf2: the key is digested and the MAC is keyed.
\* The collaborator's handling of an iteration count of 0 is its own: it may
\* reject the call or run the first round only.
Pbkdf2Start(c) ==
    /\ pc[c] = "pbkdf2"
    /\ \E key \in { PassDigest(passphrase[c]) } :
          \/ /\ KeySizeOk(key)
             /\ mac' = [mac EXCEPT ![c] = BhashNew(key)]
             /\ pc' = [pc EXCEPT ![c] = AfterBlock(c, 0)]
          \/ /\ ~KeySizeOk(key) \/ rounds[c] = 0
             /\ pc' = [pc EXCEPT ![c] = "aborted"]
             /\ UNCHANGED mac
    /\ blk' = [blk EXCEPT ![c] = 0]
    /\ rnd' = [rnd EXCEPT ![c] = 0]
    /\ ti' = [ti EXCEPT ![c] = 0]
    /\ prev' = [prev EXCEPT ![c] = << >>]
    /\ UNCHANGED << argVars, output, stride, generated, out0, writes, calls >>
    /\ UNCHANGED << ncalls, overlapped, bhVars, macVars >>

\* one MAC result of pbkdf2_body for block blk, taken from the MAC m fed `input`
\* (Bhash::result, 75-78: bhash of the key and of the digest of the input), xored
\* into the block; `first`: the block is zeroed before
MacStep(c, m, input, first) ==
    \E a \in { BhashArgs(m) } : \E tag \in { bhash(a.pass, a.salt) } :
        LET chunk == IF first THEN [k \in 1..BHASH_OUTPUT_SIZE |-> 0]
                     ELSE GetChunk(generated[c], blk[c])
            last == rnd[c] + 1 >= RoundsOf(rounds[c])
        IN  /\ calls' = [calls EXCEPT ![c] =
                            Append(@, [pass |-> a.pass, salt |-> a.salt, input |-> input])]
            /\ IF tag.ok
               THEN /\ generated' = [generated EXCEPT ![c] =
                                        PutChunk(@, blk[c], XorBytes(chunk, tag.out))]
                    /\ prev' = [prev EXCEPT ![c] = tag.out]
                    /\ rnd' = [rnd EXCEPT ![c] = IF last THEN 0 ELSE rnd[c] + 1]
                    /\ blk' = [blk EXCEPT ![c] = IF last THEN blk[c] + 1 ELSE blk[c]]
                    /\ pc' = [pc EXCEPT ![c] =
                                 IF last THEN AfterBlock(c, blk[c] + 1) ELSE "block"]
               ELSE /\ pc' = [pc EXCEPT ![c] = "aborted"]
                    /\ UNCHANGED << generated, prev, rnd, blk >>
            /\ UNCHANGED << argVars, output, stride, mac, ti, out0, writes >>
            /\ UNCHANGED << ncalls, overlapped, bhVars, macVars >>

\* pbkdf2_body, the first round of block blk
BlockFirst(c) ==
    /\ pc[c] = "block"
    /\ rnd[c] = 0
    /\ MacStep(c, FirstMac(mac[c], salt[c], blk[c]), FirstInput(salt[c], blk[c]), TRUE)

\* pbkdf2_body, one turn of `for _ in 1..c`
BlockIter(c) ==
    /\ pc[c] = "block"
    /\ rnd[c] >= 1
    /\ MacStep(c, IterMac(mac[c], prev[c]), prev[c], FALSE)

\* 95-99, one turn; an index outside `generated` panics
TransposeByte(c) ==
    /\ pc[c] = "transpose"
    /\ ti[c] < TransposeEnd(Len(output[c]))
    /\ IF stride[c] > 0 /\ ReadIndex(ti[c], stride[c]) < Len(generated[c])
       THEN /\ output' = [output EXCEPT ![c][ti[c] + 1] =
                             generated[c][ReadIndex(ti[c], stride[c]) + 1]]
            /\ writes' = [writes EXCEPT ![c][ti[c] + 1] = @ + 1]
            /\ ti' = [ti EXCEPT ![c] = ti[c] + 1]
            /\ UNCHANGED pc
       ELSE /\ pc' = [pc EXCEPT ![c] = "aborted"]
            /\ UNCHANGED << output, writes, ti >>
    /\ UNCHANGED << argVars, stride, generated, mac, blk, rnd, prev, out0, calls >>
    /\ UNCHANGED << ncalls, overlapped, bhVars, macVars >>

\* 100
Return(c) ==
    /\ pc[c] = "transpose"
    /\ ti[c] >= TransposeEnd(Len(output[c]))
    /\ pc' = [pc EXCEPT ![c] = "returned"]
    /\ UNCHANGED << argVars, output, stride, generated, mac, blk, rnd, prev, ti, out0,
                    writes, calls, ncalls, overlapped, bhVars, macVars >>

\* the call is over, by return or by panic: its locals and arguments are gone
\* and the caller is done with the buffer
Leave(c) ==
    /\ pc[c] \in {"returned", "aborted"}
    /\ pc' = [pc EXCEPT ![c] = "idle"]
    /\ passphrase' = [passphrase EXCEPT ![c] = << >>]
    /\ salt' = [salt EXCEPT ![c] = << >>]
    /\ rounds' = [rounds EXCEPT ![c] = 0]
    /\ output' = [output EXCEPT ![c] = << >>]
    /\ stride' = [stride EXCEPT ![c] = 0]
    /\ generated' = [generated EXCEPT ![c] = << >>]
    /\ mac' = [mac EXCEPT ![c] = BhashNew(<< >>)]
    /\ blk' = [blk EXCEPT ![c] = 0]
    /\ rnd' = [rnd EXCEPT ![c] = 0]
    /\ prev' = [prev EXCEPT ![c] = << >>]
    /\ ti' = [ti EXCEPT ![c] = 0]
    /\ out0' = [out0 EXCEPT ![c] = << >>]
    /\ writes' = [writes EXCEPT ![c] = << >>]
    /\ calls' = [calls EXCEPT ![c] = << >>]
    /\ overlapped' = [overlapped EXCEPT ![c] = FALSE]
    /\ UNCHANGED << ncalls, bhVars, macVars >>

(***************************************************************************)
(* One Bhash adaptor driven through the Mac interface.                     *)
(***************************************************************************)
MaxFed == 3

\* the digests of "" and "p\0"
MacKeys == { PassDigest(p) : p \in Passphrases }
\* what one input call may pass
Chunks == { << >>, << 0 >>, << 115 >>, << 115, 0 >> }

MacIdle ==
    /\ m_pc = "none"
    /\ m_key = << >>
    /\ adaptor = BhashNew(<< >>)
    /\ m_tag = [ok |-> FALSE, out |-> << >>]
    /\ m_fed = << >>
    /\ m_inputs = 0
    /\ m_resets = FALSE

\* Mac::new
MacNew ==
    /\ m_pc \in {"none", "consumed"}
    /\ \E key \in MacKeys :
        /\ m_key' = key
        /\ adaptor' = BhashNew(key)
    /\ m_pc' = "live"
    /\ m_tag' = [ok |-> FALSE, out |-> << >>]
    /\ m_fed' = << >>
    /\ m_inputs' = 0
    /\ m_resets' = FALSE
    /\ UNCHANGED << bhVars, drvVars >>

\* Mac::input
MacInput ==
    /\ m_pc = "live"
    /\ \E data \in Chunks :
        /\ Len(m_fed) + Len(data) <= MaxFed
        /\ adaptor' = BhashInput(adaptor, data)
        /\ m_fed' = m_fed \o data
    /\ m_inputs' = m_inputs + 1
    /\ m_inputs < MaxFed
    /\ UNCHANGED << m_pc, m_key, m_tag, m_resets, bhVars, drvVars >>

\* Mac::reset
MacReset ==
    /\ m_pc = "live"
    /\ adaptor' = BhashReset(adaptor)
    /\ m_fed' = << >>
    /\ m_inputs' = 0
    /\ m_resets' = (m_resets \/ m_inputs > 0)
    /\ UNCHANGED << m_pc, m_key, m_tag, bhVars, drvVars >>

\* Mac::result
MacResult ==
    /\ m_pc = "live"
    /\ m_tag' = BhashResult(adaptor)
    /\ m_pc' = "consumed"
    /\ UNCHANGED << m_key, adaptor, m_fed, m_inputs, m_resets, bhVars, drvVars >>

(***************************************************************************)
(* The specifications.                                                     *)
(***************************************************************************)
Init == BhIdle /\ DrvIdle /\ MacIdle

\* one caller, every argument of the bounds
Next ==
    \/ Call(1, ArgSet)
    \/ Alloc(1)
    \/ Pbkdf2Start(1)
    \/ BlockFirst(1)
    \/ BlockIter(1)
    \/ TransposeByte(1)
    \/ Return(1)
    \/ Leave(1)

Spec == Init /\ [][Next]_vars

\* two callers, each with a buffer of its own, interleaved step by step
ParLens == {2}
ParArgSet == [passphrase : Passphrases, salt : {<< 115, 97 >>}, rounds : {2}, len : ParLens]

ParNext ==
    \E c \in Callers :
        \/ Call(c, ParArgSet)
        \/ Alloc(c)
        \/ Pbkdf2Start(c)
        \/ BlockFirst(c)
        \/ BlockIter(c)
        \/ TransposeByte(c)
        \/ Return(c)
        \/ Leave(c)

SpecPar == Init /\ [][ParNext]_vars

\* one bhash invocation
BhInit == BhStart /\ DrvIdle /\ MacIdle

SpecBhash == BhInit /\ [][BhNext]_vars

\* one adaptor
MacNext ==
    \/ MacNew
    \/ MacInput
    \/ MacReset
    \/ MacResult

SpecMac == Init /\ [][MacNext]_vars

\* the machine returns what the function computes
BhashAgrees ==
    bh_pc = "done" => bhash(sha2_pass, sha2_salt) = [ok |-> TRUE, out |-> bh_output]

(***************************************************************************)
(* The properties.                                                         *)
(***************************************************************************)
\* ceil(len / 32), written out
CeilBlocks(len) == IF len % 32 = 0 THEN len \div 32 ELSE (len \div 32) + 1

Args(c) == << passphrase[c], salt[c], rounds[c], Len(output[c]) >>

\* C1: for every output length len >= 1 and every index i in [0, len), after
\* bcrypt_pbkdf returns, output[i] = intermediate[(i mod stride) * 32 +
\* (i div stride)] with stride = ceil(len / 32) and intermediate the
\* stride * 32 bytes PBKDF2 filled: the blocks are interleaved byte by byte.
C1_Interleaved ==
    \A c \in Callers :
        (pc[c] = "returned" /\ Len(output[c]) >= 1) =>
            LET len == Len(output[c])
                st == CeilBlocks(len)
            IN  /\ Len(generated[c]) = st * 32
                /\ \A i \in 0..(len - 1) :
                      output[c][i + 1] = generated[c][((i % st) * 32 + (i \div st)) + 1]

\* a call of more than two blocks has returned, and what it returned is not
\* the head of the intermediate buffer
C1_Witness ==
    \E c \in Callers :
        /\ pc[c] = "returned"
        /\ Len(output[c]) > 64
        /\ output[c] # SubSeq(generated[c], 1, Len(output[c]))

\* C2: for every len >= 1, multiples of 32 or not, a successful call writes
\* every byte of the output buffer exactly once before it returns, and the
\* length of the buffer is unchanged.
C2_WrittenOnce ==
    \A c \in Callers :
        /\ Len(output[c]) = Len(out0[c])
        /\ Len(writes[c]) = Len(out0[c])
        /\ \A k \in 1..Len(writes[c]) : writes[c][k] <= 1
        /\ pc[c] = "returned" => \A k \in 1..Len(writes[c]) : writes[c][k] = 1

C2_Witness ==
    \E c \in Callers :
        /\ pc[c] = "returned"
        /\ Len(output[c]) > 32
        /\ Len(output[c]) % 32 # 0
        /\ \A k \in 1..Len(output[c]) : writes[c][k] = 1

\* C3: a call with a zero-length output buffer is rejected; it does not
\* return normally.
C3_ZeroLengthRejected ==
    \A c \in Callers :
        (pc[c] = "returned" /\ rounds[c] >= 1) => Len(output[c]) > 0

\* C4: no byte of the output buffer is written before the whole PBKDF2
\* computation, every bhash invocation with it, is over; if the call aborts
\* the buffer is as the caller passed it, if it returns the buffer is fully
\* populated.
C4_NoPartialOutput ==
    \A c \in Callers :
        /\ (output[c] # out0[c] \/ \E k \in 1..Len(writes[c]) : writes[c][k] > 0) =>
              /\ pc[c] \in {"transpose", "returned"}
              /\ Len(calls[c]) =
                    CeilBlocks(Len(output[c])) * (IF rounds[c] = 0 THEN 1 ELSE rounds[c])
        /\ pc[c] = "aborted" =>
              /\ output[c] = out0[c]
              /\ \A k \in 1..Len(writes[c]) : writes[c][k] = 0
        /\ pc[c] = "returned" =>
              \A k \in 1..Len(output[c]) :
                  /\ writes[c][k] > 0
                  /\ output[c][k] \in { generated[c][g] : g \in 1..Len(generated[c]) }

\* the output of a call of two blocks and two rounds is half written
C4_Witness ==
    \E c \in Callers :
        /\ pc[c] = "transpose"
        /\ ti[c] > 0
        /\ ti[c] < Len(output[c])
        /\ Len(calls[c]) = 4

\* C9: for every len >= 1 and every i in [0, len) the index read,
\* (i mod stride) * 32 + (i div stride), is below stride * 32 (i div stride is
\* at most 31), distinct i read distinct positions, and for len a multiple of
\* 32 the positions read are the whole intermediate buffer.
C9_ReadInBounds ==
    \A c \in Callers :
        (pc[c] = "transpose" /\ ti[c] = 0 /\ Len(output[c]) >= 1) =>
            LET len == Len(output[c])
                st == stride[c]
                idx(i) == ReadIndex(i, st)
            IN  /\ st >= 1
                /\ Len(generated[c]) = st * 32
                /\ \A i \in 0..(len - 1) :
                      /\ idx(i) = (i % st) * 32 + (i \div st)
                      /\ i \div st <= 31
                      /\ idx(i) >= 0
                      /\ idx(i) < st * 32
                /\ \A i, j \in 0..(len - 1) : idx(i) = idx(j) => i = j
                /\ len % 32 = 0 =>
                      { idx(i) : i \in 0..(len - 1) } = 0..(st * 32 - 1)

C9_Witness ==
    \E c \in Callers :
        /\ pc[c] = "transpose"
        /\ ti[c] = 0
        /\ Len(output[c]) = 64
        /\ ReadIndex(63, stride[c]) = 63

\* C10: the two length assertions of bhash never fail in a call made through
\* bcrypt_pbkdf: whatever the passphrase, the salt (empty too), the rounds
\* and the output length, every bhash invocation gets a password of exactly
\* 64 bytes, the SHA-512 digest of the passphrase, the same for every block
\* and round, and a salt of exactly 64 bytes, a SHA-512 digest of the MAC
\* input.
C10_AssertsHold ==
    \A c \in Callers :
        /\ \A k \in 1..Len(calls[c]) :
              /\ Len(calls[c][k].pass) = 64
              /\ Len(calls[c][k].salt) = 64
              /\ BhashAsserts(calls[c][k].pass, calls[c][k].salt)
              /\ calls[c][k].pass = calls[c][1].pass
        \* what the digests are of, looked at when PBKDF2 is over in the calls
        \* of one block
        /\ (pc[c] = "transpose" /\ ti[c] = 0 /\ stride[c] = 1) =>
              \A k \in 1..Len(calls[c]) :
                  /\ calls[c][k].pass = Sha512Digest(passphrase[c])
                  /\ calls[c][k].salt = Sha512Digest(calls[c][k].input)
        \* the only abort left is the collaborator's, on 0 rounds, before any MAC
        /\ pc[c] = "aborted" => (rounds[c] = 0 /\ calls[c] = << >>)

\* six invocations made with the empty salt and the empty passphrase, all passed
C10_Witness ==
    \E c \in Callers :
        /\ pc[c] = "returned"
        /\ salt[c] = << >>
        /\ passphrase[c] = << >>
        /\ Len(calls[c]) = 6

\* C5: the output of bcrypt_pbkdf depends on its arguments only: two calls
\* with the same passphrase, salt, rounds and output length produce the same
\* bytes, whatever calls ran before them and however they are interleaved
\* with calls on other buffers.
C5_Deterministic ==
    \A c, d \in Callers :
        (pc[c] = "returned" /\ pc[d] = "returned" /\ Args(c) = Args(d)) =>
            output[c] = output[d]

\* two calls with the same arguments have returned; one ran while the other
\* caller was inside a call, the other after an earlier call
C5_Witness ==
    /\ pc[1] = "returned"
    /\ pc[2] = "returned"
    /\ Args(1) = Args(2)
    /\ Len(output[1]) > 1
    /\ overlapped[1]
    /\ ncalls[2] = 2

\* C6: the result of the Bhash adaptor is bhash(key, SHA512(all the data
\* passed to input since construction or the last reset)): the same bytes
\* split over several input calls give the result of one call, and after
\* input calls followed by reset the adaptor is as freshly constructed with
\* the same key.
C6_MacOfAccumulatedInput ==
    /\ m_pc # "none" => adaptor.sha2_pass = m_key
    /\ m_pc = "consumed" => m_tag = bhash(m_key, Sha512Digest(m_fed))
    /\ (m_pc = "live" /\ m_inputs = 0) => adaptor = BhashNew(m_key)

\* a result taken after input, reset, and two more input calls
C6_Witness ==
    /\ m_pc = "consumed"
    /\ m_resets
    /\ m_inputs >= 2
    /\ Len(m_fed) >= 2
    /\ m_tag.ok

\* the cipher operation bhash is to perform as its k-th
ExpectedOp(k) ==
    IF k = 1 THEN [op |-> "init"]
    ELSE IF k = 2 THEN [op |-> "salted", salt |-> sha2_salt, key |-> sha2_pass]
    ELSE IF k <= 130
    THEN [op |-> "expand", key |-> IF k % 2 = 1 THEN sha2_salt ELSE sha2_pass]
    ELSE [op |-> "encrypt", i |-> 2 * ((k - 131) % 4)]

\* what the k-th operation was, without the words it worked on
PerformedOp(k) ==
    IF oplog[k].op = "encrypt" THEN [op |-> "encrypt", i |-> oplog[k].i] ELSE oplog[k]

\* C7: every bhash invocation performs one state initialisation, one salted
\* key expansion (salt, password), then exactly 128 plain re-expansions
\* alternating salt, password, ..., and only then exactly 256 block
\* encryptions: 64 passes over the word pairs (0,1), (2,3), (4,5), (6,7) in
\* that order, each pair replaced by its ciphertext before the next pass.
C7_OperationOrder ==
    /\ Len(oplog) <= 386
    /\ \A k \in 1..Len(oplog) : PerformedOp(k) = ExpectedOp(k)
    /\ bh_pc = "done" => Len(oplog) = 386
    /\ \A k \in 131..Len(oplog) :
          LET i == oplog[k].i
          IN  /\ << oplog[k].l, oplog[k].r >> =
                    IF k <= 134 THEN << SeedWords[i], SeedWords[i + 1] >>
                    ELSE << oplog[k - 4].cl, oplog[k - 4].cr >>
              /\ k + 4 > Len(oplog) => << cdata[i], cdata[i + 1] >> = << oplog[k].cl, oplog[k].cr >>

\* an invocation with a password other than its salt is over
C7_Witness ==
    /\ bh_pc = "done"
    /\ sha2_pass # sha2_salt
    /\ Len(oplog) = 386
    /\ oplog[386].cl # oplog[382].cl

\* the seed with every group of 4 bytes reversed
SeedGroupsReversed ==
    [k \in 1..32 |-> BHASH_SEED[4 * ((k - 1) \div 4) + (4 - ((k - 1) % 4))]]

\* C8: word k of bhash is read big-endian from seed bytes 4k..4k+3 (seed[4k]
\* the most significant) and the final word k is written little-endian into
\* output bytes 4k..4k+3 (output[4k] the least significant), in word order;
\* words the encryption left unchanged would give the seed with every group
\* of 4 bytes reversed.
C8_ByteOrders ==
    /\ (bh_pc = "encrypt" /\ bh_n = 0 /\ bh_i = 0) =>
          /\ \A k \in 0..7 :
                /\ cdata[k][1] = BHASH_SEED[4 * k + 1] * 256 + BHASH_SEED[4 * k + 2]
                /\ cdata[k][2] = BHASH_SEED[4 * k + 3] * 256 + BHASH_SEED[4 * k + 4]
          /\ Serialize(cdata) = SeedGroupsReversed
    /\ bh_pc = "done" =>
          /\ Len(bh_output) = 32
          /\ \A k \in 0..7 :
                /\ bh_output[4 * k + 1] = cdata[k][2] % 256
                /\ bh_output[4 * k + 2] = cdata[k][2] \div 256
                /\ bh_output[4 * k + 3] = cdata[k][1] % 256
                /\ bh_output[4 * k + 4] = cdata[k][1] \div 256

\* an invocation is over and the passes did change the words
C8_Witness ==
    /\ bh_pc = "done"
    /\ bh_output # SeedGroupsReversed
    /\ \E k \in 0..7 : cdata[k][1] >= 32768

====
